---- MODULE Spec2Model ----
(***************************************************************************)
(* A model of calculator.py: the restricted expression evaluator           *)
(* (safe_eval over the name table _ALLOWED_NAMES), the interactive loop    *)
(* (interactive_cli), the upload helper (upload_file_to_stream) and the    *)
(* local-repository publish helper (init_and_push_local_repo).             *)
(*                                                                         *)
(* Python strings are TLA+ strings; a character is a string of length 1.   *)
(* The evaluator is Python's eval on a fragment of the expression grammar: *)
(* decimal integers, names, + - * / // % **, unary + and -, parentheses,   *)
(* calls and the assignment expression NAME := expr.  A float is kept as    *)
(* an exact reduced fraction (rounding is not modelled).                   *)
(***************************************************************************)
EXTENDS Integers, Sequences, FiniteSets, TLC

(***************************************************************************)
(* Bounds of the model.                                                    *)
(***************************************************************************)
\* safe_eval calls made directly by a client in one behaviour
MaxCalls == 3
\* lines read by one run of the interactive loop
MaxLines == 2

(***************************************************************************)
(* Characters and strings.                                                 *)
(***************************************************************************)
Upper == "ABCDEFGHIJKLMNOPQRSTUVWXYZ"

Lower == "abcdefghijklmnopqrstuvwxyz"

Digits == "0123456789"

Ch(s, i) == SubSeq(s, i, i)

\* 0 when c does not occur in s, else the least index where it does
IndexOf(c, s) ==
    IF \E i \in 1..Len(s) : Ch(s, i) = c
    THEN CHOOSE i \in 1..Len(s) : Ch(s, i) = c /\ \A j \in 1..(i - 1) : Ch(s, j) # c
    ELSE 0

IsDigit(c) == IndexOf(c, Digits) # 0

IsNameStart(c) == IndexOf(c, Upper) # 0 \/ IndexOf(c, Lower) # 0 \/ c = "_"

IsNameChar(c) == IsNameStart(c) \/ IsDigit(c)

IsSpace(c) == c = " "

\* str.lower() on one character
LowerChar(c) == IF IndexOf(c, Upper) # 0 THEN Ch(Lower, IndexOf(c, Upper)) ELSE c

RECURSIVE StrLower(_)
\* str.lower()
StrLower(s) == IF s = "" THEN "" ELSE LowerChar(Ch(s, 1)) \o StrLower(Tail(s))

\* token in s (Python's substring test)
Contains(s, token) ==
    \E i \in 1..(Len(s) - Len(token) + 1) : SubSeq(s, i, i + Len(token) - 1) = token

RECURSIVE LStrip(_)
LStrip(s) == IF s # "" /\ IsSpace(Ch(s, 1)) THEN LStrip(Tail(s)) ELSE s

RECURSIVE RStrip(_)
RStrip(s) ==
    IF s # "" /\ IsSpace(Ch(s, Len(s))) THEN RStrip(SubSeq(s, 1, Len(s) - 1)) ELSE s

\* str.strip()
Strip(s) == RStrip(LStrip(s))

\* the decimal value of a string of digits
RECURSIVE DecimalValue(_)
DecimalValue(s) ==
    IF s = "" THEN 0
    ELSE 10 * DecimalValue(SubSeq(s, 1, Len(s) - 1)) + (IndexOf(Ch(s, Len(s)), Digits) - 1)

(***************************************************************************)
(* The denylist of safe_eval.                                              *)
(***************************************************************************)
forbidden == <<"__", "import", "os.", "sys.", "subprocess", "open(", "eval(", "exec(">>

\* the scan without lower_expr = expr.lower()
Unsafe_CaseSensitive(expr) == \E k \in 1..Len(forbidden) : Contains(expr, forbidden[k])

\* for token in forbidden: if token in lower_expr
Unsafe(expr) == \E k \in 1..Len(forbidden) : Contains(StrLower(expr), forbidden[k])

(***************************************************************************)
(* Tokens of the expression fragment.                                      *)
(***************************************************************************)
Tok(k, s) == [k |-> k, s |-> s]

TwoCharOps == {"**", "//", ":="}

OneCharOps == {"+", "-", "*", "/", "%", "(", ")", ","}

\* the length of the longest prefix of s made of characters satisfying the test
RECURSIVE DigitRun(_)
DigitRun(s) == IF s # "" /\ IsDigit(Ch(s, 1)) THEN 1 + DigitRun(Tail(s)) ELSE 0

RECURSIVE NameRun(_)
NameRun(s) == IF s # "" /\ IsNameChar(Ch(s, 1)) THEN 1 + NameRun(Tail(s)) ELSE 0

\* a decimal literal: no letter may follow it, and only zero may start with 0
NumberOk(s, n) ==
    /\ ~(n < Len(s) /\ (IsNameStart(Ch(s, n + 1)) \/ Ch(s, n + 1) = "."))
    /\ (Ch(s, 1) = "0" => \A i \in 1..n : Ch(s, i) = "0")

RECURSIVE Tokenize(_)
\* the tokens of s; a token of kind "bad" where the tokenizer rejects the text
Tokenize(s) ==
    IF s = "" THEN <<>>
    ELSE LET c == Ch(s, 1) IN
         IF IsSpace(c) THEN Tokenize(Tail(s))
         ELSE IF IsDigit(c)
         THEN LET n == DigitRun(s) IN
              IF NumberOk(s, n)
              THEN <<Tok("num", SubSeq(s, 1, n))>> \o Tokenize(SubSeq(s, n + 1, Len(s)))
              ELSE <<Tok("bad", SubSeq(s, 1, n))>>
         ELSE IF IsNameStart(c)
         THEN LET n == NameRun(s) IN
              <<Tok("name", SubSeq(s, 1, n))>> \o Tokenize(SubSeq(s, n + 1, Len(s)))
         ELSE IF Len(s) >= 2 /\ SubSeq(s, 1, 2) \in TwoCharOps
         THEN <<Tok("op", SubSeq(s, 1, 2))>> \o Tokenize(SubSeq(s, 3, Len(s)))
         ELSE IF c \in OneCharOps
         THEN <<Tok("op", c)>> \o Tokenize(Tail(s))
         ELSE <<Tok("bad", c)>>

(***************************************************************************)
(* The parser: Python's expression grammar on the fragment, parsed by      *)
(* precedence climbing.                                                    *)
(*   named   ::= NAME ":=" sum | sum          (inside parentheses only)    *)
(*   sum     ::= term (("+" | "-") term)*                                  *)
(*   term    ::= factor (("*" | "/" | "//" | "%") factor)*                 *)
(*   factor  ::= ("+" | "-") factor | power                                *)
(*   power   ::= primary ["**" factor]                                     *)
(*   primary ::= atom ("(" [named ("," named)* [","]] ")")*                *)
(*   atom    ::= NUMBER | NAME | "(" named ")"                             *)
(***************************************************************************)
EndTok == Tok("end", "")

Peek(ts, p) == IF p >= 1 /\ p <= Len(ts) THEN ts[p] ELSE EndTok

IsOp(t, o) == t.k = "op" /\ t.s = o

IsOpIn(t, os) == t.k = "op" /\ t.s \in os

ParseFail == [ok |-> FALSE, ast |-> [op |-> "none"], p |-> 0]

ParseOk(ast, p) == [ok |-> TRUE, ast |-> ast, p |-> p]

Num(v) == [op |-> "num", v |-> v]

Name(id) == [op |-> "name", id |-> id]

Bin(o, l, r) == [op |-> "bin", o |-> o, l |-> l, r |-> r]

Unary(o, e) == [op |-> "unary", o |-> o, e |-> e]

Call(f, args) == [op |-> "call", f |-> f, args |-> args]

NamedExpr(id, e) == [op |-> "walrus", id |-> id, e |-> e]

\* how tightly an operator binds: + - below * / // % below unary below **
Prec(o) == CASE o \in {"+", "-"} -> 1
             [] o \in {"*", "/", "//", "%"} -> 2
             [] o = "**" -> 4
             [] OTHER -> 0

UnaryPrec == 3

\* the least binding of the right operand: ** associates to the right and
\* takes a factor, the others associate to the left
RightPrec(o) == IF o = "**" THEN UnaryPrec ELSE Prec(o) + 1

RECURSIVE ParseExpr(_, _, _), ParseRest(_, _, _, _), ParseArgs(_, _, _)

\* an expression whose operators bind at least as tightly as min; min = 0
\* where the grammar has named (an assignment expression is allowed)
ParseExpr(ts, p, min) ==
    LET t == Peek(ts, p) IN
    IF min = 0 /\ t.k = "name" /\ IsOp(Peek(ts, p + 1), ":=")
    THEN LET r == ParseExpr(ts, p + 2, 1) IN
         IF r.ok THEN ParseOk(NamedExpr(t.s, r.ast), r.p) ELSE ParseFail
    ELSE IF IsOpIn(t, {"+", "-"})
    THEN LET r == ParseExpr(ts, p + 1, UnaryPrec) IN
         IF r.ok THEN ParseRest(ts, r.p, Unary(t.s, r.ast), min) ELSE ParseFail
    ELSE IF t.k = "num" THEN ParseRest(ts, p + 1, Num(DecimalValue(t.s)), min)
    ELSE IF t.k = "name" THEN ParseRest(ts, p + 1, Name(t.s), min)
    ELSE IF IsOp(t, "(")
    THEN LET r == ParseExpr(ts, p + 1, 0) IN
         IF r.ok /\ IsOp(Peek(ts, r.p), ")") THEN ParseRest(ts, r.p + 1, r.ast, min)
         ELSE ParseFail
    ELSE ParseFail

\* what follows the operand left: a call, or an operator and its right operand
ParseRest(ts, p, left, min) ==
    LET t == Peek(ts, p) IN
    IF IsOp(t, "(")
    THEN LET a == ParseArgs(ts, p + 1, <<>>) IN
         IF a.ok THEN ParseRest(ts, a.p, Call(left, a.ast), min) ELSE ParseFail
    ELSE IF t.k = "op" /\ Prec(t.s) > 0 /\ Prec(t.s) >= min
    THEN LET r == ParseExpr(ts, p + 1, RightPrec(t.s)) IN
         IF r.ok THEN ParseRest(ts, r.p, Bin(t.s, left, r.ast), min) ELSE ParseFail
    ELSE ParseOk(left, p)

\* the arguments of a call, up to and with its closing parenthesis
ParseArgs(ts, p, acc) ==
    IF IsOp(Peek(ts, p), ")") THEN ParseOk(acc, p + 1)
    ELSE LET a == ParseExpr(ts, p, 0) IN
         IF ~a.ok THEN ParseFail
         ELSE IF IsOp(Peek(ts, a.p), ",") THEN ParseArgs(ts, a.p + 1, Append(acc, a.ast))
         ELSE IF IsOp(Peek(ts, a.p), ")") THEN ParseOk(Append(acc, a.ast), a.p + 1)
         ELSE ParseFail

\* compile(expr, "<string>", "eval"): the tree, or ok = FALSE for a SyntaxError
Whole(ts, r) == IF r.ok /\ r.p = Len(ts) + 1 THEN r ELSE ParseFail

ParseTokens(ts) ==
    IF ts = <<>> \/ ts[Len(ts)].k = "bad" THEN ParseFail
    ELSE Whole(ts, ParseExpr(ts, 1, 1))

Parse(s) == ParseTokens(Tokenize(s))

(***************************************************************************)
(* Values: an int, a float (the reduced fraction n/d, d > 0) or one of the *)
(* functions of the name table.                                            *)
(***************************************************************************)
Abs(n) == IF n < 0 THEN -n ELSE n

RECURSIVE Gcd(_, _)
Gcd(a, b) == IF b = 0 THEN a ELSE Gcd(b, a % b)

\* Python's // and % on ints, b # 0: the quotient is rounded down
FloorDiv(a, b) == IF b > 0 THEN a \div b ELSE (-a) \div (-b)

Mod(a, b) == a - b * FloorDiv(a, b)

RECURSIVE IntPow(_, _)
IntPow(b, k) == IF k = 0 THEN 1 ELSE b * IntPow(b, k - 1)

RECURSIVE Fact(_)
Fact(n) == IF n = 0 THEN 1 ELSE n * Fact(n - 1)

\* the integer square root of n >= 0
ISqrt(n) == CHOOSE r \in 0..n : r * r <= n /\ (r + 1) * (r + 1) > n

IsSquare(n) == n >= 0 /\ ISqrt(n) * ISqrt(n) = n

IntV(n) == [t |-> "int", n |-> n, d |-> 1, f |-> ""]

FloatV(n, d) ==
    LET g == Gcd(Abs(n), Abs(d))
        sg == IF d < 0 THEN -1 ELSE 1
    IN  [t |-> "float", n |-> (sg * n) \div g, d |-> (sg * d) \div g, f |-> ""]

FnV(f) == [t |-> "fn", n |-> 0, d |-> 1, f |-> f]

IsNumber(v) == v.t \in {"int", "float"}

\* int when every operand is an int, else float
Arith(x, y, n, d) == IF x.t = "int" /\ y.t = "int" THEN IntV(n \div d) ELSE FloatV(n, d)

\* x < y on numbers
Less(x, y) == x.n * y.d < y.n * x.d

\* the outcome of one evaluation step: a value, or the exception raised
Val(v) == [exc |-> "", msg |-> "", v |-> v]

Raise(exc, msg) == [exc |-> exc, msg |-> msg, v |-> IntV(0)]

\* x ** k for an integer k
PowInt(x, k) ==
    IF k >= 0
    THEN Val(Arith(x, x, IntPow(x.n, k), IntPow(x.d, k)))
    ELSE IF x.n = 0
    THEN Raise("ZeroDivisionError", "0.0 cannot be raised to a negative power")
    ELSE Val(FloatV(IntPow(x.d, -k), IntPow(x.n, -k)))

\* the binary operators of Python on the values of the fragment
BinOp(o, x, y) ==
    IF ~IsNumber(x) \/ ~IsNumber(y)
    THEN Raise("TypeError", "unsupported operand type(s) for " \o o)
    ELSE CASE o = "+" -> Val(Arith(x, y, x.n * y.d + y.n * x.d, x.d * y.d))
           [] o = "-" -> Val(Arith(x, y, x.n * y.d - y.n * x.d, x.d * y.d))
           [] o = "*" -> Val(Arith(x, y, x.n * y.n, x.d * y.d))
           [] o = "/" ->
                IF y.n = 0 THEN Raise("ZeroDivisionError", "division by zero")
                ELSE Val(FloatV(x.n * y.d, x.d * y.n))
           [] o = "//" ->
                IF y.n = 0
                THEN Raise("ZeroDivisionError", "integer division or modulo by zero")
                ELSE Val(Arith(x, y, FloorDiv(x.n * y.d, x.d * y.n), 1))
           [] o = "%" ->
                IF y.n = 0 THEN Raise("ZeroDivisionError", "integer modulo by zero")
                ELSE LET q == FloorDiv(x.n * y.d, x.d * y.n) IN
                     Val(Arith(x, y, x.n * y.d - q * y.n * x.d, x.d * y.d))
           [] o = "**" ->
                IF y.d = 1 THEN PowInt(x, y.n)
                ELSE Raise("Unmodelled", "a fractional exponent")

UnaryOp(o, x) ==
    IF ~IsNumber(x) THEN Raise("TypeError", "bad operand type for unary " \o o)
    ELSE IF o = "-" THEN Val([x EXCEPT !.n = -x.n])
    ELSE Val(x)

(***************************************************************************)
(* The functions of the name table, as the fragment calls them.            *)
(***************************************************************************)
\* the first least (greatest, with gt) of the arguments
RECURSIVE Extreme(_, _, _)
Extreme(vs, best, gt) ==
    IF vs = <<>> THEN best
    ELSE LET v == Head(vs) IN
         Extreme(Tail(vs), IF (IF gt THEN Less(best, v) ELSE Less(v, best)) THEN v ELSE best, gt)

CallFn(f, vs) ==
    LET n == Len(vs)
        nums == \A i \in 1..n : IsNumber(vs[i])
    IN
    CASE f = "abs" ->
            IF n # 1 THEN Raise("TypeError", "abs() takes exactly one argument")
            ELSE IF ~nums THEN Raise("TypeError", "bad operand type for abs()")
            ELSE Val([vs[1] EXCEPT !.n = Abs(vs[1].n)])
      [] f \in {"min", "max"} ->
            IF n = 0 THEN Raise("TypeError", f \o " expected at least 1 argument, got 0")
            ELSE IF n = 1 THEN Raise("TypeError", "object is not iterable")
            ELSE IF ~nums THEN Raise("TypeError", "comparison not supported")
            ELSE Val(Extreme(Tail(vs), vs[1], f = "max"))
      [] f = "pow" ->
            IF n \notin {2, 3} THEN Raise("TypeError", "pow() missing required argument")
            ELSE IF n = 2 THEN BinOp("**", vs[1], vs[2])
            ELSE IF \E i \in 1..3 : vs[i].t # "int"
            THEN Raise("TypeError", "pow() 3rd argument not allowed unless all arguments are integers")
            ELSE IF vs[3].n = 0 THEN Raise("ValueError", "pow() 3rd argument cannot be 0")
            ELSE IF vs[2].n < 0 THEN Raise("Unmodelled", "a modular inverse")
            ELSE Val(IntV(Mod(IntPow(vs[1].n, vs[2].n), vs[3].n)))
      [] f = "round" ->
            IF n \notin {1, 2} THEN Raise("TypeError", "round() missing required argument")
            ELSE IF ~nums THEN Raise("TypeError", "type doesn't define __round__ method")
            ELSE IF n = 2 THEN
                 IF vs[2].t # "int"
                 THEN Raise("TypeError", "object cannot be interpreted as an integer")
                 ELSE IF vs[1].t = "int" /\ vs[2].n >= 0 THEN Val(vs[1])
                 ELSE Raise("Unmodelled", "round to digits")
            ELSE LET x == vs[1]
                     lo == FloorDiv(x.n, x.d)
                     twice == 2 * (x.n - lo * x.d)
                 IN  \* to the nearest int, a half to the even one
                     Val(IntV(IF twice < x.d \/ (twice = x.d /\ lo % 2 = 0) THEN lo ELSE lo + 1))
      [] f = "math.sqrt" ->
            IF n # 1 THEN Raise("TypeError", "math.sqrt() takes exactly one argument")
            ELSE IF ~nums THEN Raise("TypeError", "must be real number")
            ELSE IF vs[1].n < 0 THEN Raise("ValueError", "math domain error")
            ELSE IF IsSquare(vs[1].n) /\ IsSquare(vs[1].d)
            THEN Val(FloatV(ISqrt(vs[1].n), ISqrt(vs[1].d)))
            ELSE Raise("Unmodelled", "an irrational root")
      [] f = "math.floor" ->
            IF n # 1 THEN Raise("TypeError", "math.floor() takes exactly one argument")
            ELSE IF ~nums THEN Raise("TypeError", "must be real number")
            ELSE Val(IntV(FloorDiv(vs[1].n, vs[1].d)))
      [] f = "math.factorial" ->
            IF n # 1 THEN Raise("TypeError", "math.factorial() takes exactly one argument")
            ELSE IF vs[1].t # "int"
            THEN Raise("TypeError", "object cannot be interpreted as an integer")
            ELSE IF vs[1].n < 0
            THEN Raise("ValueError", "factorial() not defined for negative values")
            ELSE Val(IntV(Fact(vs[1].n)))
      [] OTHER -> Raise("Unmodelled", f)

(***************************************************************************)
(* The name table _ALLOWED_NAMES: the public names of math (the model      *)
(* keeps six of them), updated with five builtins.  pow is in both, and  *)
(* the update leaves the builtin.                                          *)
(***************************************************************************)
\* dir(math)
MathDir == {"__name__", "pi", "e", "sqrt", "floor", "factorial", "pow"}

\* getattr(math, k); pi and e are floats, here 22/7 and 19/7
MathAttr(k) ==
    CASE k = "pi" -> FloatV(22, 7)
      [] k = "e" -> FloatV(19, 7)
      [] OTHER -> FnV("math." \o k)

ExtraBuiltins ==
    [k \in {"abs", "round", "min", "max", "pow"} |-> FnV(k)]

\* dict.update: the keys of extra replace those of table
DictUpdate(table, extra) == extra @@ table

\* the table as the module builds it when it is imported
ALLOWED_NAMES_0 ==
    DictUpdate([k \in {m \in MathDir : Ch(m, 1) # "_"} |-> MathAttr(k)], ExtraBuiltins)

(***************************************************************************)
(* eval(expr, {"__builtins__": {}}, names): the tree is evaluated left to  *)
(* right; an assignment expression stores into names, the locals mapping.  *)
(***************************************************************************)
Done(r, names) == [exc |-> r.exc, msg |-> r.msg, v |-> r.v, names |-> names]

\* STORE_NAME: names[id] = v
StoreName(names, id, v) == (id :> v) @@ names

RECURSIVE Eval(_, _), EvalArgs(_, _, _)

Eval(ast, names) ==
    CASE ast.op = "num" -> Done(Val(IntV(ast.v)), names)
      [] ast.op = "name" ->
            IF ast.id \in DOMAIN names THEN Done(Val(names[ast.id]), names)
            ELSE Done(Raise("NameError", "name '" \o ast.id \o "' is not defined"), names)
      [] ast.op = "walrus" ->
            LET r == Eval(ast.e, names) IN
            IF r.exc # "" THEN r ELSE [r EXCEPT !.names = StoreName(r.names, ast.id, r.v)]
      [] ast.op = "unary" ->
            LET r == Eval(ast.e, names) IN
            IF r.exc # "" THEN r ELSE Done(UnaryOp(ast.o, r.v), r.names)
      [] ast.op = "bin" ->
            LET l == Eval(ast.l, names) IN
            IF l.exc # "" THEN l
            ELSE LET r == Eval(ast.r, l.names) IN
                 IF r.exc # "" THEN r ELSE Done(BinOp(ast.o, l.v, r.v), r.names)
      [] ast.op = "call" ->
            LET f == Eval(ast.f, names) IN
            IF f.exc # "" THEN f
            ELSE LET a == EvalArgs(ast.args, f.names, <<>>) IN
                 IF a.exc # "" THEN a
                 ELSE IF f.v.t # "fn"
                 THEN Done(Raise("TypeError", "object is not callable"), a.names)
                 ELSE Done(CallFn(f.v.f, a.v), a.names)

\* the arguments of a call, left to right; v is the sequence of their values
EvalArgs(args, names, acc) ==
    IF args = <<>> THEN [exc |-> "", msg |-> "", v |-> acc, names |-> names]
    ELSE LET r == Eval(Head(args), names) IN
         IF r.exc # "" THEN r ELSE EvalArgs(Tail(args), r.names, Append(acc, r.v))

\* eval of the text: a SyntaxError before anything is evaluated
EvalTree(t, names) ==
    IF ~t.ok THEN Done(Raise("SyntaxError", "invalid syntax"), names)
    ELSE Eval(t.ast, names)

PyEval(expr, names) == EvalTree(Parse(expr), names)

(***************************************************************************)
(* safe_eval.  Its argument is any Python object: type is the object's     *)
(* type and s its text.  The result holds what the call returned or        *)
(* raised, the name table after it, whether eval was reached, and the      *)
(* exception eval raised (cause).                                          *)
(***************************************************************************)
PyStr(s) == [type |-> "str", s |-> s]

PyObj(type, s) == [type |-> type, s |-> s]

UnsafeMsg == "Unsafe token detected in expression."

NotStrMsg == "Expression must be a string."

Outcome(kind, msg, v, evaluated, cause, names) ==
    [kind |-> kind, msg |-> msg, v |-> v, evaluated |-> evaluated, cause |-> cause,
     names |-> names]

\* the handlers without the clause "except ZeroDivisionError: raise"
Evaluated_NoReraise(r) ==
    IF r.exc = "" THEN Outcome("return", "", r.v, TRUE, "", r.names)
    ELSE Outcome("ValueError", "Invalid expression: " \o r.msg, IntV(0), TRUE, r.exc,
                 r.names)

\* try: result = eval(...)  except ZeroDivisionError: raise
\* except Exception as e: raise ValueError(f"Invalid expression: {e}")
Evaluated(r) ==
    IF r.exc = "" THEN Outcome("return", "", r.v, TRUE, "", r.names)
    ELSE IF r.exc = "ZeroDivisionError"
    THEN Outcome("ZeroDivisionError", r.msg, IntV(0), TRUE, r.exc, r.names)
    ELSE Outcome("ValueError", "Invalid expression: " \o r.msg, IntV(0), TRUE, r.exc,
                 r.names)

\* safe_eval without the isinstance check: the object's text is scanned and evaluated
safe_eval_NoTypeCheck(expr, names) ==
    IF Unsafe(expr.s)
    THEN Outcome("ValueError", UnsafeMsg, IntV(0), FALSE, "", names)
    ELSE Evaluated(PyEval(expr.s, names))

safe_eval(expr, names) ==
    IF expr.type # "str"
    THEN Outcome("ValueError", NotStrMsg, IntV(0), FALSE, "", names)
    ELSE IF Unsafe(expr.s)
    THEN Outcome("ValueError", UnsafeMsg, IntV(0), FALSE, "", names)
    ELSE Evaluated(PyEval(expr.s, names))

\* what a caller sees of a call: the result without the table
Seen(o) == [kind |-> o.kind, msg |-> o.msg, v |-> o.v]

\* the failures of the evaluator, as its callers can tell them apart
UnsafeExpression(o) == o.kind = "ValueError" /\ o.msg = UnsafeMsg

InvalidExpression(o) == o.kind = "ValueError" /\ o.msg # UnsafeMsg

DivisionByZero(o) == o.kind = "ZeroDivisionError"

(***************************************************************************)
(* The inputs the model draws from.                                        *)
(***************************************************************************)
Expressions ==
    { "", "2+2", "10 % 3", "2**10", "sqrt(16)", "pow(2, 8)", "max(3, 7/2)",
      "1/0", "1//0", "1%0", "pi / (2 - 2)", "pow(0, -1)",
      "foo", "foo(1)", "1/0 + foo", "foo + 1/0", "1/foo",
      "(foo := 0)", "(pi := pi + 1)", "(foo := 2) + 1/0", "abs(abs := 3)",
      "1 +", "x := 1", "01", "2 $ 3", "abs()", "sqrt(0 - 1)", "abs + 1", "3(4)",
      "__import__", "open(1)", "OPEN(1)/0", "Import", "os.x", "sys.exit", "subprocess",
      "eval(1/0)", "exec(1)", "1 +__" }

NonStrings ==
    { PyObj("int", "5"), PyObj("NoneType", ""), PyObj("bytes", "__import__"),
      PyObj("list", "open(") }

Inputs == {PyStr(e) : e \in Expressions} \cup NonStrings

\* what input(">>> ") can return in the interactive loop
Lines ==
    { "quit", "EXIT", "  Exit ", "quit()", "", "   ", " 2+2 ", "1/0", "open(1)", "foo",
      "(foo := 0)", "1/foo", "1 +" }

(***************************************************************************)
(* The state.  A client of the module is at pc = "idle": it calls          *)
(* safe_eval, or it runs the interactive loop, or one of the two helpers.  *)
(***************************************************************************)
VARIABLES
    names,      \* _ALLOWED_NAMES, the module's global table
    pc,         \* where the client is
    last,       \* the last direct call of safe_eval: its argument and result
    prev,       \* the call before it, kept when it had the same argument
    ncalls,     \* the direct calls made
    line,       \* interactive loop: the stripped line being evaluated
    echo,       \* interactive loop: what was printed since the last read
    nlines,     \* interactive loop: the lines read
    raised,     \* the exception that left the running function, "" when none
    handle,     \* upload: the file object opened: "none", "open" or "closed"
    request,    \* upload: the POST as sent
    git_cmds,   \* publish: the command list cmds
    git_run,    \* publish: the commands invoked so far, in order
    git_exit    \* publish: their exit codes

vars == <<names, pc, last, prev, ncalls, line, echo, nlines, raised, handle, request,
          git_cmds, git_run, git_exit>>

evalVars == <<last, prev, ncalls>>

cliVars == <<line, echo, nlines>>

uploadVars == <<handle, request>>

gitVars == <<git_cmds, git_run, git_exit>>

NoCall ==
    [called |-> FALSE, x |-> PyObj("NoneType", ""),
     out |-> [kind |-> "none", msg |-> "", v |-> IntV(0)], evaluated |-> FALSE,
     cause |-> ""]

NoRequest == [sent |-> FALSE, auth |-> "", data |-> "", timeout |-> 0]

Init ==
    /\ names = ALLOWED_NAMES_0
    /\ pc = "idle"
    /\ last = NoCall
    /\ prev = NoCall
    /\ ncalls = 0
    /\ line = ""
    /\ echo = <<>>
    /\ nlines = 0
    /\ raised = ""
    /\ handle = "none"
    /\ request = NoRequest
    /\ git_cmds = <<>>
    /\ git_run = <<>>
    /\ git_exit = <<>>

(***************************************************************************)
(* A direct call of safe_eval(x).                                          *)
(***************************************************************************)
\* the call with its result o: the table as the call left it, and the record
Called(x, o) ==
    /\ names' = o.names
    /\ last' = [called |-> TRUE, x |-> x, out |-> Seen(o), evaluated |-> o.evaluated,
                cause |-> o.cause]
    /\ prev' = IF last.called /\ last.x = x THEN last ELSE NoCall

SafeEvalCall(x) ==
    /\ pc = "idle"
    /\ ncalls < MaxCalls
    /\ Called(x, safe_eval(x, names))
    /\ ncalls' = ncalls + 1
    /\ UNCHANGED <<pc, raised>>
    /\ UNCHANGED <<cliVars, uploadVars, gitVars>>

(***************************************************************************)
(* interactive_cli, entered from main with --cli in a fresh process.       *)
(***************************************************************************)
Text(t) == [kind |-> "text", text |-> t, v |-> IntV(0)]

\* print(out): the line that shows the value
Result(v) == [kind |-> "result", text |-> "", v |-> v]

Banner ==
    << Text("Simple CLI Calculator - type 'quit' or 'exit' to leave."),
       Text("You can use math functions like sin(0.5), sqrt(2), pow(2,3), pi, e, etc.") >>

\* the loop's handler written "except ValueError": a ZeroDivisionError leaves the loop
CliHandle_OnlyValueError(o) ==
    IF o.kind = "return"
    THEN [pc |-> "cli_input", echo |-> <<Result(o.v)>>, raised |-> ""]
    ELSE IF o.kind = "ValueError"
    THEN [pc |-> "cli_input", echo |-> <<Text("Error: " \o o.msg)>>, raised |-> ""]
    ELSE [pc |-> "cli_unhandled", echo |-> <<>>, raised |-> o.kind]

\* try: out = safe_eval(expr); print(out)  except Exception as e: print("Error:", e)
CliHandle(o) ==
    IF o.kind = "return"
    THEN [pc |-> "cli_input", echo |-> <<Result(o.v)>>, raised |-> ""]
    ELSE [pc |-> "cli_input", echo |-> <<Text("Error: " \o o.msg)>>, raised |-> ""]

CliStart ==
    /\ pc = "idle"
    /\ ncalls = 0
    /\ pc' = "cli_input"
    /\ echo' = Banner
    /\ UNCHANGED <<names, line, nlines, raised>>
    /\ UNCHANGED <<evalVars, uploadVars, gitVars>>

\* input(">>> ") returns text: strip it, leave on quit or exit, skip a blank line
CliReadLine(text) ==
    /\ pc = "cli_input"
    /\ nlines < MaxLines
    /\ LET expr == Strip(text) IN
       /\ pc' = IF StrLower(expr) \in {"quit", "exit"} THEN "cli_exit"
                ELSE IF expr = "" THEN "cli_input"
                ELSE "cli_eval"
       /\ line' = expr
    /\ echo' = <<>>
    /\ nlines' = nlines + 1
    /\ UNCHANGED <<names, raised>>
    /\ UNCHANGED <<evalVars, uploadVars, gitVars>>

\* input(">>> ") raises EOFError or KeyboardInterrupt: print() and break
CliInputRaises ==
    /\ pc = "cli_input"
    /\ pc' = "cli_exit"
    /\ echo' = Append(echo, Text(""))
    /\ UNCHANGED <<names, line, nlines, raised>>
    /\ UNCHANGED <<evalVars, uploadVars, gitVars>>

CliEvaluated(o, h) ==
    /\ names' = o.names
    /\ pc' = h.pc
    /\ echo' = echo \o h.echo
    /\ raised' = h.raised

\* the line is evaluated and its result or its error printed
CliTry(o) == CliEvaluated(o, CliHandle(o))

CliEval ==
    /\ pc = "cli_eval"
    /\ CliTry(safe_eval(PyStr(line), names))
    /\ UNCHANGED <<line, nlines>>
    /\ UNCHANGED <<evalVars, uploadVars, gitVars>>

\* KeyboardInterrupt while safe_eval runs: it is no Exception, so neither
\* handler catches it and it leaves interactive_cli and main.  The table is
\* as the evaluation had left it when the interrupt came.
CliInterruptEval ==
    /\ pc = "cli_eval"
    /\ names' \in {names, safe_eval(PyStr(line), names).names}
    /\ pc' = "cli_unhandled"
    /\ raised' = "KeyboardInterrupt"
    /\ UNCHANGED <<line, echo, nlines>>
    /\ UNCHANGED <<evalVars, uploadVars, gitVars>>

(***************************************************************************)
(* upload_file_to_stream(stream_endpoint, file_path, api_key, extra).      *)
(***************************************************************************)
\* timeout=30 of requests.post
UploadTimeout == 30

ApiKeys == {"None", "", "key"}

Payloads == {"None", "{}", "{'a': 'b'}"}

\* if api_key: headers["Authorization"] = f"Bearer {api_key}"
AuthHeader(api_key) == IF api_key \in {"None", ""} THEN "" ELSE "Bearer " \o api_key

\* data = extra_payload or {}
FormData(extra) == IF extra \in {"None", "{}"} THEN "{}" ELSE extra

\* up to the POST: the checks, the headers, the file opened
UploadBegin(have_requests, exists, can_open, api_key, extra) ==
    /\ pc = "idle"
    /\ ncalls = 0
    /\ IF ~have_requests
       THEN pc' = "up_raised" /\ raised' = "RuntimeError" /\ UNCHANGED uploadVars
       ELSE IF ~exists
       THEN pc' = "up_raised" /\ raised' = "FileNotFoundError" /\ UNCHANGED uploadVars
       ELSE IF ~can_open
       THEN pc' = "up_raised" /\ raised' = "OSError" /\ UNCHANGED uploadVars
       ELSE /\ pc' = "up_post"
            /\ handle' = "open"
            /\ request' = [sent |-> TRUE, auth |-> AuthHeader(api_key),
                           data |-> FormData(extra), timeout |-> UploadTimeout]
            /\ UNCHANGED raised
    /\ UNCHANGED names
    /\ UNCHANGED <<evalVars, cliVars, gitVars>>

\* requests.post returns: the file is closed, the body parsed or returned as text
UploadPostReturns(is_json) ==
    /\ pc = "up_post"
    /\ handle' = "closed"
    /\ pc' = IF is_json THEN "up_returned_json" ELSE "up_returned_text"
    /\ UNCHANGED <<names, raised, request>>
    /\ UNCHANGED <<evalVars, cliVars, gitVars>>

\* requests.post raises: the exception leaves the function before the close
UploadPostRaises ==
    /\ pc = "up_post"
    /\ pc' = "up_raised"
    /\ raised' = "RequestException"
    /\ UNCHANGED <<names, handle, request>>
    /\ UNCHANGED <<evalVars, cliVars, gitVars>>

(***************************************************************************)
(* init_and_push_local_repo(local_dir, repo_url, commit_message).          *)
(***************************************************************************)
RepoUrls == {"git@github.com:user/repo.git", "https://github.com/user/repo.git"}

CommitMessages == {"Initial commit", "first"}

ExitCodes == {0, 1, 128}

Cmds(repo_url, commit_message) ==
    << <<"git", "init">>,
       <<"git", "add", "--all">>,
       <<"git", "commit", "-m", commit_message>>,
       <<"git", "branch", "-M", "main">>,
       <<"git", "remote", "add", "origin", repo_url>>,
       <<"git", "push", "-u", "origin", "main">> >>

\* subprocess.run without check=True: no exit code raises
CheckRaises_Never(rc) == FALSE

\* subprocess.run(..., check=True) raises CalledProcessError on this exit code
CheckRaises(rc) == rc # 0

GitBegin(exists, repo_url, commit_message) ==
    /\ pc = "idle"
    /\ ncalls = 0
    /\ IF ~exists
       THEN pc' = "git_raised" /\ raised' = "FileNotFoundError" /\ UNCHANGED gitVars
       ELSE /\ pc' = "git_loop"
            /\ git_cmds' = Cmds(repo_url, commit_message)
            /\ UNCHANGED <<git_run, git_exit, raised>>
    /\ UNCHANGED names
    /\ UNCHANGED <<evalVars, cliVars, uploadVars>>

\* one turn of the loop: the next command runs and exits with rc
GitRunNext(rc) ==
    /\ pc = "git_loop"
    /\ LET i == Len(git_run) + 1 IN
       /\ git_run' = Append(git_run, git_cmds[i])
       /\ git_exit' = Append(git_exit, rc)
       /\ IF CheckRaises(rc)
          THEN pc' = "git_raised" /\ raised' = "CalledProcessError"
          ELSE /\ pc' = IF i = Len(git_cmds) THEN "git_done" ELSE "git_loop"
               /\ UNCHANGED raised
    /\ UNCHANGED <<names, git_cmds>>
    /\ UNCHANGED <<evalVars, cliVars, uploadVars>>

(***************************************************************************)
(* The specification.                                                      *)
(***************************************************************************)
Next ==
    \/ \E x \in Inputs : SafeEvalCall(x)
    \/ CliStart
    \/ \E text \in Lines : CliReadLine(text)
    \/ CliInputRaises
    \/ CliEval
    \/ CliInterruptEval
    \/ \E have_requests, exists, can_open \in BOOLEAN, api_key \in ApiKeys, extra \in Payloads :
          UploadBegin(have_requests, exists, can_open, api_key, extra)
    \/ \E is_json \in BOOLEAN : UploadPostReturns(is_json)
    \/ UploadPostRaises
    \/ \E exists \in BOOLEAN, repo_url \in RepoUrls, commit_message \in CommitMessages :
          GitBegin(exists, repo_url, commit_message)
    \/ \E rc \in ExitCodes : GitRunNext(rc)

Spec == Init /\ [][Next]_vars

(***************************************************************************)
(* Properties.                                                             *)
(***************************************************************************)
\* every direct call stays inside the fragment the evaluator models
InFragment == last.cause # "Unmodelled"

\* the last direct call had a string argument that the denylist lets through
PassedDenylist ==
    /\ last.called
    /\ last.x.type = "str"
    /\ ~\E k \in 1..Len(forbidden) : Contains(StrLower(last.x.s), forbidden[k])

\* the names an expression tree loads
RECURSIVE Loads(_)
Loads(ast) ==
    CASE ast.op = "name" -> {ast.id}
      [] ast.op = "walrus" -> Loads(ast.e)
      [] ast.op = "unary" -> Loads(ast.e)
      [] ast.op = "bin" -> Loads(ast.l) \cup Loads(ast.r)
      [] ast.op = "call" ->
            Loads(ast.f) \cup UNION {Loads(ast.args[i]) : i \in 1..Len(ast.args)}
      [] OTHER -> {}

\* C1: a string holding a forbidden substring anywhere in its lower-cased text
\* fails with UnsafeExpression and is never handed to eval, whatever the rest is.
C1_ForbiddenIsUnsafe ==
    ( /\ last.called
      /\ last.x.type = "str"
      /\ \E k \in 1..Len(forbidden) : Contains(StrLower(last.x.s), forbidden[k]) )
    => (UnsafeExpression(last.out) /\ ~last.evaluated)

\* an upper-case forbidden token before a division by zero was rejected unevaluated
C1_Witness ==
    /\ last.called
    /\ last.x = PyStr("OPEN(1)/0")
    /\ UnsafeExpression(last.out)
    /\ ~last.evaluated

C3_OtherErrorsInvalid ==
    PassedDenylist =>
        /\ last.out.kind \in {"return", "ValueError", "ZeroDivisionError"}
        /\ (last.cause \notin {"", "ZeroDivisionError"}
                => /\ InvalidExpression(last.out)
                   /\ SubSeq(last.out.msg, 1, 20) = "Invalid expression: "
                   /\ Len(last.out.msg) > 20)
        /\ ((Parse(last.x.s).ok
                /\ Loads(Parse(last.x.s).ast) \ DOMAIN ALLOWED_NAMES_0 # {})
                => last.out.kind # "return")

\* C4: the empty string and every argument that is not a string fail with
\* InvalidExpression; a non-string is refused before the denylist scan and before
\* any evaluation, so it never fails in another way.
C4_EmptyAndNonStringInvalid ==
    last.called =>
        /\ (last.x.type # "str"
                => /\ InvalidExpression(last.out)
                   /\ last.out.msg = NotStrMsg
                   /\ ~last.evaluated)
        /\ (last.x = PyStr("") => InvalidExpression(last.out))

\* a bytes object whose text holds a forbidden token failed as InvalidExpression
C4_Witness ==
    /\ last.called
    /\ last.x = PyObj("bytes", "__import__")
    /\ InvalidExpression(last.out)

\* C5: two calls with the same argument give the same result, and the result of a
\* call is the one the same call gives on the table the module started with.
C5_Idempotent ==
    /\ (prev.called => prev.out = last.out)
    /\ (last.called => last.out = Seen(safe_eval(last.x, ALLOWED_NAMES_0)))

\* C6: the name table is the one the module built, after any calls.
C6_TableNeverMutated == names = ALLOWED_NAMES_0

\* C7: the interactive loop ends only by a clean exit: quit and exit in any case
\* leave it, and no exception leaves interactive_cli, whenever an interrupt comes.
C7_CleanExit ==
    /\ pc # "cli_unhandled"
    /\ (pc \in {"cli_input", "cli_eval"} => StrLower(line) \notin {"quit", "exit"})

\* C8 as stated: back at the prompt after a line that did not end the loop,
\* exactly one line has been echoed, and no evaluator failure has left the loop.
C8_OneEchoPerLine ==
    /\ (pc = "cli_input" /\ nlines > 0 => Len(echo) = 1)
    /\ (pc = "cli_unhandled" => raised = "KeyboardInterrupt")

IsEchoLine(l) ==
    \/ l.kind = "result"
    \/ l.kind = "text" /\ Len(l.text) > 7 /\ SubSeq(l.text, 1, 7) = "Error: "

\* C8 amended: back at the prompt after a line, nothing has been echoed when the
\* line was blank after stripping, and otherwise exactly one line, the result or
\* "Error: <message>"; only a KeyboardInterrupt, never an evaluator failure,
\* leaves the loop with an exception; and a loop that ended after a line other
\* than quit or exit ended at the prompt (with the empty line of print()).
C8_OneEchoPerNonBlankLine ==
    /\ (pc = "cli_input" /\ nlines > 0
            => IF line = "" THEN echo = <<>>
               ELSE Len(echo) = 1 /\ IsEchoLine(echo[1]))
    /\ (pc = "cli_unhandled" => raised = "KeyboardInterrupt")
    /\ (pc = "cli_exit" /\ nlines > 0 /\ StrLower(line) \notin {"quit", "exit"}
            => echo # <<>> /\ echo[Len(echo)] = Text(""))

\* a division by zero was echoed as one Error line and the loop prompts again
C8_Witness ==
    /\ pc = "cli_input"
    /\ line = "1/0"
    /\ echo = <<Text("Error: division by zero")>>

\* C9: once upload_file_to_stream has returned or raised, the file it opened is
\* closed.
C9_HandleReleased ==
    pc \in {"up_returned_json", "up_returned_text", "up_raised"} => handle # "open"

Verbs == <<"init", "add", "commit", "branch", "remote", "push">>

\* C10: the commands are invoked in the fixed order, each once and only after
\* every earlier one exited zero; the first non-zero exit stops the helper with
\* CalledProcessError; a missing directory fails before any command.
C10_GitInOrderStopAtFirstFailure ==
    LET n == Len(git_run) IN
    /\ Len(git_exit) = n
    /\ n <= Len(Verbs)
    /\ \A i \in 1..n : git_run[i] = git_cmds[i] /\ git_run[i][2] = Verbs[i]
    /\ \A i \in 1..(n - 1) : git_exit[i] = 0
    /\ (n > 0 /\ git_exit[n] # 0 => pc = "git_raised" /\ raised = "CalledProcessError")
    /\ (pc = "git_loop" => n < Len(Verbs) /\ \A i \in 1..n : git_exit[i] = 0)
    /\ (pc = "git_done" => n = Len(Verbs) /\ \A i \in 1..n : git_exit[i] = 0)
    /\ (pc = "git_raised" => \/ raised = "FileNotFoundError" /\ n = 0
                             \/ raised = "CalledProcessError" /\ n > 0 /\ git_exit[n] # 0)

\* the commit failed: three commands were invoked and the helper raised
C10_Witness ==
    /\ pc = "git_raised"
    /\ git_exit = <<0, 0, 1>>
    /\ Len(git_run) = 3
    /\ raised = "CalledProcessError"

====
